---- MODULE Spec2Model ----
(***************************************************************************)
(* Model of the Jira link validator                                        *)
(*   src/plugins/workflow-orchestration/skills/jira-relationships/         *)
(*       scripts/validate_link_operation.py                                *)
(*                                                                         *)
(* The validators are static pure functions: each is an operator computed  *)
(* as the code computes it, and a specification draws the arguments from   *)
(* bounded sets and applies it.  The recursive search has_path is also     *)
(* modelled frame by frame (a call stack) so that its termination and the  *)
(* number of node expansions are properties of a transition system.        *)
(*                                                                         *)
(* Further parts: the link store with its callers (the read, validate and  *)
(* write sequence around the validator), and from                          *)
(*   src/plugins/workflow-orchestration/skills/jira-issue-operations/      *)
(*       scripts/                                                          *)
(* the JQLBuilder of build_jql_query.py and the JiraFieldValidator of      *)
(* validate_issue_fields.py.                                               *)
(***************************************************************************)
EXTENDS Naturals, Sequences, FiniteSets, TLC

VARIABLES
    outward_key,     \* argument: the issue that blocks
    inward_key,      \* argument: the issue that is blocked
    link_type,       \* argument: the link type
    existing_links,  \* argument: None or a list of link dicts
    pc,              \* position of the call: "start", "build", "search", "done"
    result,          \* what the call returned or raised (NoResult before)
    blocking_map,    \* the dict built from existing_links
    stack,           \* the frames of has_path, the innermost last
    visited,         \* the set shared by the frames of has_path
    ret,             \* the value the last finished frame returned, or "none"
    expanded,        \* log: the nodes whose successors were iterated, in order
    store,           \* the link store the callers read and write: a list of records
    callers,         \* per caller: its position, proposal, snapshot and decision
    conditions,      \* JQLBuilder.conditions
    order_clause,    \* JQLBuilder.order_clause; Absent while the attribute is not set
    query,           \* what the last build() returned (NoResult before)
    calls,           \* log: the calls made on the builder, in order
    issue_data       \* argument of validate_issue_fields

arguments == <<outward_key, inward_key, link_type, existing_links>>

search == <<blocking_map, stack, visited, ret, expanded>>

builder == <<conditions, order_clause, query, calls>>

others == <<store, callers, conditions, order_clause, query, calls, issue_data>>

vars == <<outward_key, inward_key, link_type, existing_links, pc, result,
          blocking_map, stack, visited, ret, expanded,
          store, callers, conditions, order_clause, query, calls, issue_data>>

---------------------------------------------------------------------------
(* Bounds of the model *)

\* number of distinct issue keys the arguments and records are drawn from
NumKeys == 3

\* longest existing_links list of the calls evaluated in one step
MaxLinks == 3

\* longest existing_links list of the calls followed frame by frame, of the
\* calls of validate_link_operation and of the calls on malformed records
MaxFewLinks == 2

---------------------------------------------------------------------------
(* Python values.  A value carries its type; a str carries its characters. *)

Str(s) == [ty |-> "str", v |-> s]

None == [ty |-> "NoneType", v |-> <<>>]

\* a list object holding the items s
List(s) == [ty |-> "list", v |-> s]

\* dict.get(key) with the default None
Get(d, key) == IF key \in DOMAIN d THEN d[key] ELSE None

\* dict.get(key, default)
GetOr(d, key, default) == IF key \in DOMAIN d THEN d[key] ELSE default

\* d[key] = value
Put(d, key, value) ==
    [k \in (DOMAIN d) \cup {key} |-> IF k = key THEN value ELSE d[k]]

\* hash(x) succeeds: list objects are unhashable, str, int and None are not
Hashable(x) == x.ty # "list"

\* the literal "Blocks"
Blocks == Str(<<"B", "l", "o", "c", "k", "s">>)

\* the literal "Relates to"
RelatesTo == Str(<<"R", "e", "l", "a", "t", "e", "s", " ", "t", "o">>)

\* the literal "blocks": a type that differs from "Blocks" by case only
BlocksLower == Str(<<"b", "l", "o", "c", "k", "s">>)

---------------------------------------------------------------------------
(* Results of a call *)

\* a message: the text of the (f-)string and the values formatted into it
Msg(text, args) == [text |-> text, args |-> args]

\* return accepted, message
Return(accepted, message) == [accepted |-> accepted, message |-> message]

\* the call ends with an uncaught exception
Raise(exc) == [exc |-> exc]

\* no call has ended yet
NoResult == [pending |-> TRUE]

Raised(r) == "exc" \in DOMAIN r

---------------------------------------------------------------------------
(* validate_blocking_hierarchy *)

\* build_blocking_map entering every Blocks link in both directions
RECURSIVE build_blocking_map_symmetric(_, _, _)
build_blocking_map_symmetric(links, i, bmap) ==
    IF i > Len(links)
    THEN [exc |-> "", map |-> bmap]
    ELSE LET link == links[i] IN
         IF Get(link, "type") = Blocks
         THEN LET from_key == Get(link, "from")
                  to_key == Get(link, "to")
                  forward == Put(bmap, from_key,
                                 Append(GetOr(bmap, from_key, <<>>), to_key))
              IN  IF ~Hashable(from_key) \/ ~Hashable(to_key)
                  THEN [exc |-> "TypeError", map |-> bmap]
                  ELSE build_blocking_map_symmetric(links, i + 1,
                           Put(forward, to_key,
                               Append(GetOr(forward, to_key, <<>>), from_key)))
         ELSE build_blocking_map_symmetric(links, i + 1, bmap)

\* build_blocking_map comparing the type without regard to case
RECURSIVE build_blocking_map_any_case(_, _, _)
build_blocking_map_any_case(links, i, bmap) ==
    IF i > Len(links)
    THEN [exc |-> "", map |-> bmap]
    ELSE LET link == links[i] IN
         IF Get(link, "type") \in {Blocks, Str(<<"b", "l", "o", "c", "k", "s">>)}
         THEN LET from_key == Get(link, "from")
                  to_key == Get(link, "to")
              IN  IF ~Hashable(from_key)
                  THEN [exc |-> "TypeError", map |-> bmap]
                  ELSE build_blocking_map_any_case(links, i + 1,
                           Put(bmap, from_key,
                               Append(GetOr(bmap, from_key, <<>>), to_key)))
         ELSE build_blocking_map_any_case(links, i + 1, bmap)

\* the loop that builds blocking_map (bmap) from record i on
RECURSIVE build_blocking_map(_, _, _)
build_blocking_map(links, i, bmap) ==
    IF i > Len(links)
    THEN [exc |-> "", map |-> bmap]
    ELSE LET link == links[i] IN
         IF Get(link, "type") = Blocks
         THEN LET from_key == Get(link, "from")
                  to_key == Get(link, "to")
              IN  IF ~Hashable(from_key)
                  THEN [exc |-> "TypeError", map |-> bmap]
                  ELSE build_blocking_map(links, i + 1,
                           Put(bmap, from_key,
                               Append(GetOr(bmap, from_key, <<>>), to_key)))
         ELSE build_blocking_map(links, i + 1, bmap)

\* has_path looking one link ahead only: no recursive call
has_path_one_hop(bmap, from_key, to_key, seen) ==
    IF ~Hashable(from_key)
    THEN [exc |-> "TypeError", found |-> FALSE, seen |-> seen]
    ELSE [exc |-> "",
          found |-> \/ from_key = to_key
                    \/ \E i \in DOMAIN GetOr(bmap, from_key, <<>>) :
                           bmap[from_key][i] = to_key,
          seen |-> seen \cup {from_key}]

\* has_path testing the successors, not the node it is called on, against
\* to_key: a path needs at least one link
RECURSIVE has_path_links_only(_, _, _, _), has_path_links_only_loop(_, _, _, _, _)
has_path_links_only(bmap, from_key, to_key, seen) ==
    IF ~Hashable(from_key)
    THEN [exc |-> "TypeError", found |-> FALSE, seen |-> seen]
    ELSE IF from_key \in seen
    THEN [exc |-> "", found |-> FALSE, seen |-> seen]
    ELSE has_path_links_only_loop(bmap, GetOr(bmap, from_key, <<>>), 1,
                                  to_key, seen \cup {from_key})

has_path_links_only_loop(bmap, successors, i, to_key, seen) ==
    IF i > Len(successors)
    THEN [exc |-> "", found |-> FALSE, seen |-> seen]
    ELSE IF successors[i] = to_key
    THEN [exc |-> "", found |-> TRUE, seen |-> seen]
    ELSE LET r == has_path_links_only(bmap, successors[i], to_key, seen) IN
         IF r.exc # "" \/ r.found
         THEN r
         ELSE has_path_links_only_loop(bmap, successors, i + 1, to_key, r.seen)

\* has_path following only the first successor of each node
RECURSIVE has_path_first_successor(_, _, _, _)
has_path_first_successor(bmap, from_key, to_key, seen) ==
    IF ~Hashable(from_key)
    THEN [exc |-> "TypeError", found |-> FALSE, seen |-> seen]
    ELSE IF from_key \in seen
    THEN [exc |-> "", found |-> FALSE, seen |-> seen]
    ELSE IF from_key = to_key
    THEN [exc |-> "", found |-> TRUE, seen |-> seen]
    ELSE IF GetOr(bmap, from_key, <<>>) = <<>>
    THEN [exc |-> "", found |-> FALSE, seen |-> seen \cup {from_key}]
    ELSE has_path_first_successor(bmap, GetOr(bmap, from_key, <<>>)[1],
                                  to_key, seen \cup {from_key})

\* has_path and the for loop of its body, from successor i on; visited (seen) is the
\* one set object shared by all the frames, so it is threaded through
RECURSIVE has_path(_, _, _, _), has_path_loop(_, _, _, _, _)
has_path(bmap, from_key, to_key, seen) ==
    IF ~Hashable(from_key)
    THEN [exc |-> "TypeError", found |-> FALSE, seen |-> seen]
    ELSE IF from_key \in seen
    THEN [exc |-> "", found |-> FALSE, seen |-> seen]
    ELSE IF from_key = to_key
    THEN [exc |-> "", found |-> TRUE, seen |-> seen]
    ELSE has_path_loop(bmap, GetOr(bmap, from_key, <<>>), 1,
                       to_key, seen \cup {from_key})

has_path_loop(bmap, successors, i, to_key, seen) ==
    IF i > Len(successors)
    THEN [exc |-> "", found |-> FALSE, seen |-> seen]
    ELSE LET r == has_path(bmap, successors[i], to_key, seen) IN
         IF r.exc # "" \/ r.found
         THEN r
         ELSE has_path_loop(bmap, successors, i + 1, to_key, r.seen)

\* validate_blocking_hierarchy searching from outward_key to inward_key
validate_blocking_hierarchy_forward(outward, inward, ltype, links) ==
    IF ltype # Blocks
    THEN Return(TRUE,
             Msg("Not a blocking link, no circular dependency check needed", <<>>))
    ELSE LET built == build_blocking_map(IF links = None THEN <<>> ELSE links.v,
                                         1, <<>>)
         IN  IF built.exc # ""
             THEN Raise(built.exc)
             ELSE LET r == has_path(built.map, outward, inward, {}) IN
                  IF r.exc # ""
                  THEN Raise(r.exc)
                  ELSE IF r.found
                  THEN Return(FALSE,
                           Msg("Creating link would create circular dependency: {outward_key} -> {inward_key} -> ... -> {outward_key}",
                               <<outward, inward, outward>>))
                  ELSE Return(TRUE, Msg("No circular dependencies detected", <<>>))

\* validate_blocking_hierarchy without the default for None: iterating None
\* raises TypeError
validate_blocking_hierarchy_no_default(outward, inward, ltype, links) ==
    IF ltype # Blocks
    THEN Return(TRUE,
             Msg("Not a blocking link, no circular dependency check needed", <<>>))
    ELSE LET built == IF links = None
                      THEN [exc |-> "TypeError", map |-> <<>>]
                      ELSE build_blocking_map(links.v, 1, <<>>)
         IN  IF built.exc # ""
             THEN Raise(built.exc)
             ELSE LET r == has_path(built.map, inward, outward, {}) IN
                  IF r.exc # ""
                  THEN Raise(r.exc)
                  ELSE IF r.found
                  THEN Return(FALSE,
                           Msg("Creating link would create circular dependency: {outward_key} -> {inward_key} -> ... -> {outward_key}",
                               <<outward, inward, outward>>))
                  ELSE Return(TRUE, Msg("No circular dependencies detected", <<>>))

validate_blocking_hierarchy(outward, inward, ltype, links) ==
    IF ltype # Blocks
    THEN Return(TRUE,
             Msg("Not a blocking link, no circular dependency check needed", <<>>))
    ELSE LET built == build_blocking_map(IF links = None THEN <<>> ELSE links.v,
                                         1, <<>>)
         IN  IF built.exc # ""
             THEN Raise(built.exc)
             ELSE LET r == has_path(built.map, inward, outward, {}) IN
                  IF r.exc # ""
                  THEN Raise(r.exc)
                  ELSE IF r.found
                  THEN Return(FALSE,
                           Msg("Creating link would create circular dependency: {outward_key} -> {inward_key} -> ... -> {outward_key}",
                               <<outward, inward, outward>>))
                  ELSE Return(TRUE, Msg("No circular dependencies detected", <<>>))

---------------------------------------------------------------------------
(* Arguments *)

KeyLetters == <<"A", "B", "C", "D", "E", "F">>

\* issue keys; validate_blocking_hierarchy treats them as opaque strings
Keys == {Str(<<KeyLetters[i]>>) : i \in 1..NumKeys}

\* link dicts {"from": .., "to": .., "type": ..}
Link(from, to, type) == [from |-> from, to |-> to, type |-> type]

\* records of the documented shape: every Blocks edge over the keys, and two
\* links of another type, one in each direction between the first two keys
WellFormedLinks ==
    {Link(a, b, Blocks) : a \in Keys, b \in Keys}
        \cup {Link(Str(<<KeyLetters[1]>>), Str(<<KeyLetters[2]>>), RelatesTo),
              Link(Str(<<KeyLetters[2]>>), Str(<<KeyLetters[1]>>), RelatesTo)}

ListsOf(S, max) == UNION {[1..n -> S] : n \in 0..max}

---------------------------------------------------------------------------
(* Direct calls of validate_blocking_hierarchy on well-formed arguments *)

\* the state of the link store, of the JQL builder and of validate_issue_fields
\* in the specifications that do not use them
OthersUnused ==
    /\ store = <<>>
    /\ callers = <<>>
    /\ conditions = <<>>
    /\ order_clause = <<>>
    /\ query = <<>>
    /\ calls = <<>>
    /\ issue_data = <<>>

Init ==
    /\ outward_key \in Keys
    /\ inward_key \in Keys
    /\ link_type = Blocks
    /\ existing_links \in
           {None} \cup {List(s) : s \in ListsOf(WellFormedLinks, MaxLinks)}
    /\ pc = "start"
    /\ result = NoResult
    /\ blocking_map = <<>>
    /\ stack = <<>>
    /\ visited = {}
    /\ ret = "none"
    /\ expanded = <<>>
    /\ OthersUnused

CallValidateBlockingHierarchy ==
    /\ pc = "start"
    /\ result' = validate_blocking_hierarchy(outward_key, inward_key, link_type,
                                             existing_links)
    /\ pc' = "done"
    /\ UNCHANGED <<others, arguments, search>>

Next == CallValidateBlockingHierarchy

Spec == Init /\ [][Next]_vars

---------------------------------------------------------------------------
(* Direct calls of validate_blocking_hierarchy on records that are not of *)
(* the documented shape                                                   *)

\* an int and an empty list object, as values of a record's field
Int7 == [ty |-> "int", v |-> <<"7">>]

EmptyList == List(<<>>)

\* marks a field that the dict does not have
Absent == [ty |-> "absent", v |-> <<>>]

\* the dict with the fields that are not Absent
PartialLink(from, to, type) ==
    [k \in {f \in {"from", "to", "type"} :
                Link(from, to, type)[f] # Absent} |-> Link(from, to, type)[k]]

\* records of which any field may be missing; the fields present are strings
MissingFieldLinks ==
    {PartialLink(a, b, t) : a \in Keys \cup {Absent}, b \in Keys \cup {Absent},
                            t \in {Blocks, Absent}}

InitMissingFields ==
    /\ outward_key \in Keys
    /\ inward_key \in Keys
    /\ link_type = Blocks
    /\ existing_links \in
           {List(s) : s \in ListsOf(MissingFieldLinks, MaxFewLinks)}
    /\ pc = "start"
    /\ result = NoResult
    /\ blocking_map = <<>>
    /\ stack = <<>>
    /\ visited = {}
    /\ ret = "none"
    /\ expanded = <<>>
    /\ OthersUnused

SpecMissingFields == InitMissingFields /\ [][Next]_vars

\* records with all three fields, of which any may hold None, an int or a list
NonStringValues == {None, Int7, EmptyList}

NonStringLinks ==
    {Link(a, b, Blocks) : a \in Keys \cup NonStringValues,
                          b \in Keys \cup NonStringValues}
        \cup {Link(Str(<<KeyLetters[1]>>), Str(<<KeyLetters[2]>>), t) :
                 t \in NonStringValues}

InitNonStrings ==
    /\ outward_key \in Keys
    /\ inward_key \in Keys
    /\ link_type = Blocks
    /\ existing_links \in
           {List(s) : s \in ListsOf(NonStringLinks, MaxFewLinks)}
    /\ pc = "start"
    /\ result = NoResult
    /\ blocking_map = <<>>
    /\ stack = <<>>
    /\ visited = {}
    /\ ret = "none"
    /\ expanded = <<>>
    /\ OthersUnused

SpecNonStrings == InitNonStrings /\ [][Next]_vars

---------------------------------------------------------------------------
(* validate_blocking_hierarchy followed frame by frame *)

\* the well-formed records, one record whose from is unhashable and one
\* whose to is unhashable
SearchLinks ==
    WellFormedLinks
        \cup {Link(EmptyList, Str(<<KeyLetters[1]>>), Blocks),
              Link(Str(<<KeyLetters[1]>>), EmptyList, Blocks)}

InitSearch ==
    /\ outward_key \in Keys
    /\ inward_key \in Keys
    /\ link_type \in {Blocks, RelatesTo}
    /\ existing_links \in
           {None} \cup {List(s) : s \in ListsOf(SearchLinks, MaxFewLinks)}
    /\ pc = "start"
    /\ result = NoResult
    /\ blocking_map = <<>>
    /\ stack = <<>>
    /\ visited = {}
    /\ ret = "none"
    /\ expanded = <<>>
    /\ OthersUnused

\* a frame of has_path(from_key, to_key, visited): to_key is outward_key in
\* every frame; at is "enter" (before the tests), "loop" (in the for loop,
\* about to take successor i) or "wait" (inside the recursive call)
Frame(from_key) == [from_key |-> from_key, at |-> "enter", i |-> 1]

Top == stack[Len(stack)]

Pop == SubSeq(stack, 1, Len(stack) - 1)

ReplaceTop(frame) == [stack EXCEPT ![Len(stack)] = frame]

\* Enter with the test of link_type left out: every call builds the map
EnterWithoutTypeTest ==
    /\ pc = "start"
    /\ pc' = "build"
    /\ UNCHANGED <<others, arguments, result, search>>

\* the test of link_type that opens validate_blocking_hierarchy
Enter ==
    /\ pc = "start"
    /\ IF link_type # Blocks
       THEN /\ result' = Return(TRUE,
                   Msg("Not a blocking link, no circular dependency check needed",
                       <<>>))
            /\ pc' = "done"
       ELSE /\ pc' = "build"
            /\ UNCHANGED result
    /\ UNCHANGED <<others, arguments, search>>

\* the default for None, the loop that builds blocking_map and the outermost
\* call has_path(inward_key, outward_key)
BuildBlockingMap ==
    /\ pc = "build"
    /\ LET built == build_blocking_map(
                        IF existing_links = None THEN <<>> ELSE existing_links.v,
                        1, <<>>)
       IN  IF built.exc # ""
           THEN /\ result' = Raise(built.exc)
                /\ pc' = "done"
                /\ UNCHANGED <<blocking_map, stack>>
           ELSE /\ blocking_map' = built.map
                /\ stack' = <<Frame(inward_key)>>
                /\ pc' = "search"
                /\ UNCHANGED result
    /\ UNCHANGED <<others, arguments, visited, ret, expanded>>

\* a frame runs from its entry to the head of its for loop
HasPathEnter ==
    /\ pc = "search" /\ stack # <<>> /\ Top.at = "enter"
    /\ IF ~Hashable(Top.from_key)
       THEN \* from_key in visited raises TypeError, which nothing catches
            /\ result' = Raise("TypeError")
            /\ pc' = "done"
            /\ stack' = <<>>
            /\ UNCHANGED <<visited, ret, expanded>>
       ELSE IF Top.from_key \in visited
       THEN /\ stack' = Pop /\ ret' = "False"
            /\ UNCHANGED <<pc, result, visited, expanded>>
       ELSE IF Top.from_key = outward_key
       THEN /\ stack' = Pop /\ ret' = "True"
            /\ UNCHANGED <<pc, result, visited, expanded>>
       ELSE /\ visited' = visited \cup {Top.from_key}
            /\ expanded' = Append(expanded, Top.from_key)
            /\ stack' = ReplaceTop([Top EXCEPT !.at = "loop"])
            /\ UNCHANGED <<pc, result, ret>>
    /\ UNCHANGED <<others, arguments, blocking_map>>

\* HasPathLoop of a backtracking search: a frame that returns False takes
\* its node out of visited again
HasPathLoopBacktracking ==
    /\ pc = "search" /\ stack # <<>> /\ Top.at = "loop"
    /\ LET successors == GetOr(blocking_map, Top.from_key, <<>>) IN
       IF Top.i <= Len(successors)
       THEN /\ stack' = Append(ReplaceTop([Top EXCEPT !.at = "wait"]),
                               Frame(successors[Top.i]))
            /\ ret' = "none"
            /\ UNCHANGED visited
       ELSE /\ stack' = Pop
            /\ ret' = "False"
            /\ visited' = visited \ {Top.from_key}
    /\ UNCHANGED <<others, arguments, pc, result, blocking_map, expanded>>

\* the for loop takes its next successor and calls has_path on it, or is
\* exhausted and the frame returns False
HasPathLoop ==
    /\ pc = "search" /\ stack # <<>> /\ Top.at = "loop"
    /\ LET successors == GetOr(blocking_map, Top.from_key, <<>>) IN
       IF Top.i <= Len(successors)
       THEN /\ stack' = Append(ReplaceTop([Top EXCEPT !.at = "wait"]),
                               Frame(successors[Top.i]))
            /\ ret' = "none"
       ELSE /\ stack' = Pop
            /\ ret' = "False"
    /\ UNCHANGED <<others, arguments, pc, result, blocking_map, visited, expanded>>

\* the recursive call has returned: return True, or go on with the loop
HasPathReturn ==
    /\ pc = "search" /\ stack # <<>> /\ Top.at = "wait" /\ ret # "none"
    /\ IF ret = "True"
       THEN /\ stack' = Pop
            /\ UNCHANGED ret
       ELSE /\ stack' = ReplaceTop([Top EXCEPT !.at = "loop", !.i = @ + 1])
            /\ ret' = "none"
    /\ UNCHANGED <<others, arguments, pc, result, blocking_map, visited, expanded>>

\* the outermost call has returned: the two return statements that close
\* validate_blocking_hierarchy
Finish ==
    /\ pc = "search" /\ stack = <<>> /\ ret # "none"
    /\ result' =
           IF ret = "True"
           THEN Return(FALSE,
                    Msg("Creating link would create circular dependency: {outward_key} -> {inward_key} -> ... -> {outward_key}",
                        <<outward_key, inward_key, outward_key>>))
           ELSE Return(TRUE, Msg("No circular dependencies detected", <<>>))
    /\ pc' = "done"
    /\ UNCHANGED <<others, arguments, search>>

NextSearch ==
    \/ Enter
    \/ BuildBlockingMap
    \/ HasPathEnter
    \/ HasPathLoop
    \/ HasPathReturn
    \/ Finish

SpecSearch == InitSearch /\ [][NextSearch]_vars

\* the interpreter runs a call to its end: every step that is enabled is
\* eventually taken
SpecSearchFair == SpecSearch /\ WF_vars(NextSearch)

\* the frame-by-frame run ends with the result the one-step evaluation gives
SearchAgrees ==
    pc = "done" =>
        result = validate_blocking_hierarchy(outward_key, inward_key, link_type,
                                             existing_links)

---------------------------------------------------------------------------
(* The companion validators and validate_link_operation *)

UpperLetters ==
    <<"A", "B", "C", "D", "E", "F", "G", "H", "I", "J", "K", "L", "M",
      "N", "O", "P", "Q", "R", "S", "T", "U", "V", "W", "X", "Y", "Z">>

LowerLetters ==
    <<"a", "b", "c", "d", "e", "f", "g", "h", "i", "j", "k", "l", "m",
      "n", "o", "p", "q", "r", "s", "t", "u", "v", "w", "x", "y", "z">>

Digits == {"0", "1", "2", "3", "4", "5", "6", "7", "8", "9"}

IsUpperLetter(c) == \E i \in DOMAIN UpperLetters : UpperLetters[i] = c

\* str.upper(), character by character
upper(s) ==
    Str([i \in DOMAIN s.v |->
            IF \E j \in DOMAIN LowerLetters : LowerLetters[j] = s.v[i]
            THEN UpperLetters[CHOOSE j \in DOMAIN LowerLetters :
                                  LowerLetters[j] = s.v[i]]
            ELSE s.v[i]])

\* str.lower(), character by character
lower(s) ==
    Str([i \in DOMAIN s.v |->
            IF \E j \in DOMAIN UpperLetters : UpperLetters[j] = s.v[i]
            THEN LowerLetters[CHOOSE j \in DOMAIN UpperLetters :
                                  UpperLetters[j] = s.v[i]]
            ELSE s.v[i]])

\* re.match(r"^[A-Z]+-\d+$", s): one or more capitals, a hyphen, one or more
\* digits, and then the end of the string or a newline that ends the string
MatchesKeyPattern(s) ==
    \E k \in 1..Len(s.v) : \E m \in (k + 2)..Len(s.v) :
        /\ \A i \in 1..k : IsUpperLetter(s.v[i])
        /\ s.v[k + 1] = "-"
        /\ \A i \in (k + 2)..m : s.v[i] \in Digits
        /\ \/ m = Len(s.v)
           \/ m = Len(s.v) - 1 /\ s.v[Len(s.v)] = "\n"

\* s.split("-")[0]: the characters before the first hyphen
BeforeFirstHyphen(s) ==
    LET hyphens == {i \in DOMAIN s.v : s.v[i] = "-"}
        first == IF hyphens = {} THEN Len(s.v) + 1
                 ELSE CHOOSE i \in hyphens : \A j \in hyphens : i <= j
    IN  Str(SubSeq(s.v, 1, first - 1))

\* the default of expected_project
PPLWEBMYST == Str(<<"P", "P", "L", "W", "E", "B", "M", "Y", "S", "T">>)

Duplicates == Str(<<"D", "u", "p", "l", "i", "c", "a", "t", "e", "s">>)

Clones == Str(<<"C", "l", "o", "n", "e", "s">>)

IsPartOf == Str(<<"i", "s", " ", "p", "a", "r", "t", " ", "o", "f">>)

VALID_LINK_TYPES == <<Blocks, RelatesTo, Duplicates, Clones, IsPartOf>>

validate_issue_key_format(issue_key) ==
    IF ~MatchesKeyPattern(issue_key)
    THEN Return(FALSE,
             Msg("Invalid issue key format: {issue_key}. Expected: PROJECT-NUMBER",
                 <<issue_key>>))
    ELSE Return(TRUE, Msg("Issue key format is valid", <<>>))

validate_issue_key_project(issue_key, expected_project) ==
    IF BeforeFirstHyphen(issue_key) # expected_project
    THEN Return(FALSE,
             Msg("Issue {issue_key} is not in {expected_project} project",
                 <<issue_key, expected_project>>))
    ELSE Return(TRUE,
             Msg("Issue key {issue_key} is in {expected_project}",
                 <<issue_key, expected_project>>))

validate_link_type(ltype) ==
    IF ~(\E i \in DOMAIN VALID_LINK_TYPES : VALID_LINK_TYPES[i] = ltype)
    THEN Return(FALSE,
             Msg("Invalid link type: {link_type}. Supported types: Blocks, Relates to, Duplicates, Clones, is part of",
                 <<ltype>>))
    ELSE Return(TRUE, Msg("Link type is valid", <<>>))

\* validate_link_not_self folding one key to upper and the other to lower case
validate_link_not_self_mixed_case(outward, inward) ==
    IF upper(outward) = lower(inward)
    THEN Return(FALSE, Msg("Cannot link issue {outward_key} to itself", <<outward>>))
    ELSE Return(TRUE, Msg("Issues are different", <<>>))

validate_link_not_self(outward, inward) ==
    IF upper(outward) = upper(inward)
    THEN Return(FALSE, Msg("Cannot link issue {outward_key} to itself", <<outward>>))
    ELSE Return(TRUE, Msg("Issues are different", <<>>))

\* the loop of validate_link_not_duplicate, from record i on
RECURSIVE validate_link_not_duplicate_loop(_, _, _, _, _)
validate_link_not_duplicate_loop(outward, inward, ltype, links, i) ==
    IF i > Len(links)
    THEN Return(TRUE, Msg("Link does not already exist", <<>>))
    ELSE IF /\ Get(links[i], "from") = outward
            /\ Get(links[i], "to") = inward
            /\ Get(links[i], "type") = ltype
    THEN Return(FALSE,
             Msg("Link already exists: {outward_key} {link_type} {inward_key}",
                 <<outward, ltype, inward>>))
    ELSE validate_link_not_duplicate_loop(outward, inward, ltype, links, i + 1)

validate_link_not_duplicate(outward, inward, ltype, links) ==
    validate_link_not_duplicate_loop(outward, inward, ltype,
        IF links = None THEN <<>> ELSE links.v, 1)

\* errors.append({"field": .., "error": ..}) when the check did not pass
AppendError(errors, field, check) ==
    IF check.accepted THEN errors
    ELSE Append(errors, [field |-> field, error |-> check.message])

\* validate_link_operation reporting a duplicate as an error
validate_link_operation_duplicate_error(outward, inward, ltype, links) ==
    LET errors1 == AppendError(<<>>, "outward_key",
                       validate_issue_key_format(outward))
        errors2 == AppendError(errors1, "outward_key",
                       validate_issue_key_project(outward, PPLWEBMYST))
        errors3 == AppendError(errors2, "inward_key",
                       validate_issue_key_format(inward))
        errors4 == AppendError(errors3, "inward_key",
                       validate_issue_key_project(inward, PPLWEBMYST))
        type_check == validate_link_type(ltype)
        errors5 == AppendError(errors4, "link", validate_link_not_self(outward, inward))
        hierarchy == validate_blocking_hierarchy(outward, inward, ltype, links)
        duplicate == validate_link_not_duplicate(outward, inward, ltype, links)
    IN  IF ~type_check.accepted
        THEN [valid |-> FALSE,
              errors |-> AppendError(errors4, "link_type", type_check),
              warnings |-> <<>>]
        ELSE IF Raised(hierarchy)
        THEN hierarchy
        ELSE LET errors6 == AppendError(errors5, "link", hierarchy)
                 errors7 == AppendError(errors6, "link", duplicate)
             IN
             [valid |-> Len(errors7) = 0,
              errors |-> errors7,
              warnings |-> <<>>,
              outward |-> outward,
              inward |-> inward,
              link_type |-> ltype]

\* validate_link_operation going on to the other checks after an invalid
\* link type
validate_link_operation_no_early_return(outward, inward, ltype, links) ==
    LET errors1 == AppendError(<<>>, "outward_key",
                       validate_issue_key_format(outward))
        errors2 == AppendError(errors1, "outward_key",
                       validate_issue_key_project(outward, PPLWEBMYST))
        errors3 == AppendError(errors2, "inward_key",
                       validate_issue_key_format(inward))
        errors4 == AppendError(errors3, "inward_key",
                       validate_issue_key_project(inward, PPLWEBMYST))
        errors4t == AppendError(errors4, "link_type", validate_link_type(ltype))
        errors5 == AppendError(errors4t, "link", validate_link_not_self(outward, inward))
        hierarchy == validate_blocking_hierarchy(outward, inward, ltype, links)
        duplicate == validate_link_not_duplicate(outward, inward, ltype, links)
    IN  IF Raised(hierarchy)
        THEN hierarchy
        ELSE LET errors6 == AppendError(errors5, "link", hierarchy) IN
             [valid |-> Len(errors6) = 0,
              errors |-> errors6,
              warnings |-> IF duplicate.accepted THEN <<>>
                           ELSE <<[field |-> "link", warning |-> duplicate.message]>>,
              outward |-> outward,
              inward |-> inward,
              link_type |-> ltype]

validate_link_operation(outward, inward, ltype, links) ==
    LET errors1 == AppendError(<<>>, "outward_key",
                       validate_issue_key_format(outward))
        errors2 == AppendError(errors1, "outward_key",
                       validate_issue_key_project(outward, PPLWEBMYST))
        errors3 == AppendError(errors2, "inward_key",
                       validate_issue_key_format(inward))
        errors4 == AppendError(errors3, "inward_key",
                       validate_issue_key_project(inward, PPLWEBMYST))
        type_check == validate_link_type(ltype)
        errors5 == AppendError(errors4, "link", validate_link_not_self(outward, inward))
        hierarchy == validate_blocking_hierarchy(outward, inward, ltype, links)
        duplicate == validate_link_not_duplicate(outward, inward, ltype, links)
    IN  IF ~type_check.accepted
        THEN [valid |-> FALSE,
              errors |-> AppendError(errors4, "link_type", type_check),
              warnings |-> <<>>]
        ELSE IF Raised(hierarchy)
        THEN hierarchy
        ELSE LET errors6 == AppendError(errors5, "link", hierarchy) IN
             [valid |-> Len(errors6) = 0,
              errors |-> errors6,
              warnings |-> IF duplicate.accepted THEN <<>>
                           ELSE <<[field |-> "link", warning |-> duplicate.message]>>,
              outward |-> outward,
              inward |-> inward,
              link_type |-> ltype]

\* issue keys: two of the project, one of them again in lower case, one of
\* another project and one without a hyphen
Key1 == Str(<<"P", "P", "L", "W", "E", "B", "M", "Y", "S", "T", "-", "1">>)

Key2 == Str(<<"P", "P", "L", "W", "E", "B", "M", "Y", "S", "T", "-", "2">>)

Key1Lower == Str(<<"p", "p", "l", "w", "e", "b", "m", "y", "s", "t", "-", "1">>)

OperationKeys ==
    {Key1, Key2, Key1Lower, Str(<<"O", "P", "S", "-", "1">>),
     Str(<<"P", "P", "L", "W", "E", "B", "M", "Y", "S", "T", "1">>)}

\* "blocks" is no valid link type
OperationLinkTypes == {Blocks, RelatesTo, BlocksLower}

\* records between the two keys of the project, one record from the key in
\* lower case and one record of the type "blocks"
OperationLinks ==
    {Link(a, b, t) : a \in {Key1, Key2}, b \in {Key1, Key2}, t \in {Blocks, RelatesTo}}
        \cup {Link(Key1Lower, Key2, Blocks), Link(Key1, Key2, BlocksLower)}

InitOperation ==
    /\ outward_key \in OperationKeys
    /\ inward_key \in OperationKeys
    /\ link_type \in OperationLinkTypes
    /\ existing_links \in
           {None} \cup {List(s) : s \in ListsOf(OperationLinks, MaxFewLinks)}
    /\ pc = "start"
    /\ result = NoResult
    /\ blocking_map = <<>>
    /\ stack = <<>>
    /\ visited = {}
    /\ ret = "none"
    /\ expanded = <<>>
    /\ OthersUnused

\* validate_link_operation writing the proposed link into the caller's list
\* when it is valid
CallValidateLinkOperationStoring ==
    /\ pc = "start"
    /\ result' = validate_link_operation(outward_key, inward_key, link_type,
                                         existing_links)
    /\ pc' = "done"
    /\ existing_links' =
           IF existing_links # None /\ "valid" \in DOMAIN result' /\ result'.valid
           THEN List(Append(existing_links.v,
                            Link(outward_key, inward_key, link_type)))
           ELSE existing_links
    /\ UNCHANGED <<others, outward_key, inward_key, link_type, search>>

CallValidateLinkOperation ==
    /\ pc = "start"
    /\ result' = validate_link_operation(outward_key, inward_key, link_type,
                                         existing_links)
    /\ pc' = "done"
    /\ UNCHANGED <<others, arguments, search>>

NextOperation == CallValidateLinkOperation

SpecOperation == InitOperation /\ [][NextOperation]_vars

---------------------------------------------------------------------------
(* Direct calls of validate_blocking_hierarchy on records of several types *)

\* the well-formed records and, for every pair of keys, a record of type
\* "blocks"
TypedLinks ==
    WellFormedLinks \cup {Link(a, b, BlocksLower) : a \in Keys, b \in Keys}

InitLinkTypes ==
    /\ outward_key \in Keys
    /\ inward_key \in Keys
    /\ link_type = Blocks
    /\ existing_links \in
           {None} \cup {List(s) : s \in ListsOf(TypedLinks, MaxFewLinks)}
    /\ pc = "start"
    /\ result = NoResult
    /\ blocking_map = <<>>
    /\ stack = <<>>
    /\ visited = {}
    /\ ret = "none"
    /\ expanded = <<>>
    /\ OthersUnused

SpecLinkTypes == InitLinkTypes /\ [][Next]_vars

---------------------------------------------------------------------------
(* The blocking graph of a list of records, as the specification defines it *)

\* the items of existing_links (None: no items)
Items(links) == IF links = None THEN <<>> ELSE links.v

\* the (from, to) pairs of the records whose type is "Blocks"
BlocksEdges(links) ==
    {<<Items(links)[i]["from"], Items(links)[i]["to"]>> :
        i \in {j \in DOMAIN Items(links) :
                  /\ DOMAIN Items(links)[j] = {"from", "to", "type"}
                  /\ Items(links)[j]["type"] = Blocks}}

\* the nodes reachable from the set S by zero or more edges of E
RECURSIVE ReachableFrom(_, _)
ReachableFrom(E, S) ==
    LET T == S \cup {e[2] : e \in {d \in E : d[1] \in S}}
    IN  IF T = S THEN S ELSE ReachableFrom(E, T)

\* a directed path of length >= 0 from a to b
PathExists(E, a, b) == b \in ReachableFrom(E, {a})

\* a chain x0 -> x1 -> ... -> xn of n >= 1 edges of E from a to b: a first
\* edge out of a, then a path of length >= 0 to b
ChainExists(E, a, b) ==
    \E e \in E : e[1] = a /\ PathExists(E, e[2], b)

Done == pc = "done"

Accepted == "accepted" \in DOMAIN result /\ result.accepted

Rejected == "accepted" \in DOMAIN result /\ ~result.accepted

KeyA == Str(<<"A">>)
KeyB == Str(<<"B">>)
KeyC == Str(<<"C">>)

---------------------------------------------------------------------------
(* The link store and the callers that validate against it and write to it *)

\* most records in the store before the first proposal
MaxInitialStore == 1

\* most records in the store written under serialization
MaxStore == 3

Callers == {"caller1", "caller2"}

StoreKeys == {KeyA, KeyB, KeyC}

StoreLinks == {Link(a, b, Blocks) : a \in StoreKeys, b \in StoreKeys}

\* a directed path of one or more edges of E leads from a node to itself
HasCycle(E) == \E e \in E : PathExists(E, e[2], e[1])

StoreHasCycle(links) == HasCycle(BlocksEdges(List(links)))

\* the validator and the JQL builder are not part of these specifications
ValidatorUnused ==
    /\ outward_key = None
    /\ inward_key = None
    /\ link_type = None
    /\ existing_links = None
    /\ pc = "unused"
    /\ result = NoResult
    /\ blocking_map = <<>>
    /\ stack = <<>>
    /\ visited = {}
    /\ ret = "none"
    /\ expanded = <<>>

BuilderUnused ==
    /\ conditions = <<>>
    /\ order_clause = <<>>
    /\ query = <<>>
    /\ calls = <<>>

\* an acyclic store of Blocks links, and no caller under way
InitStore ==
    /\ store \in {links \in ListsOf(StoreLinks, MaxInitialStore) :
                     ~StoreHasCycle(links)}
    /\ callers = [c \in Callers |-> [at |-> "idle"]]
    /\ ValidatorUnused
    /\ BuilderUnused
    /\ issue_data = <<>>

\* caller c takes a snapshot of the store for its proposal a blocks b
Read(c, a, b) ==
    /\ callers[c].at = "idle"
    /\ callers' = [callers EXCEPT ![c] =
                      [at |-> "read", outward |-> a, inward |-> b,
                       snapshot |-> store]]
    /\ UNCHANGED <<store, arguments, pc, result, search, builder, issue_data>>

\* caller c validates its proposal against its snapshot
Validate(c) ==
    /\ callers[c].at = "read"
    /\ callers' = [callers EXCEPT ![c] =
                      [at |-> "validated",
                       outward |-> callers[c].outward,
                       inward |-> callers[c].inward,
                       snapshot |-> callers[c].snapshot,
                       decision |-> validate_blocking_hierarchy(
                                        callers[c].outward, callers[c].inward,
                                        Blocks, List(callers[c].snapshot))]]
    /\ UNCHANGED <<store, arguments, pc, result, search, builder, issue_data>>

\* caller c writes the link it found valid, whatever the store holds by now
Commit(c) ==
    /\ callers[c].at = "validated"
    /\ store' = IF callers[c].decision.accepted
                THEN Append(store, Link(callers[c].outward, callers[c].inward,
                                        Blocks))
                ELSE store
    /\ callers' = [callers EXCEPT ![c].at = "done"]
    /\ UNCHANGED <<arguments, pc, result, search, builder, issue_data>>

\* read, validate and write without serialization: the steps of the callers
\* interleave
NextRace ==
    \E c \in Callers :
        \/ \E a \in StoreKeys, b \in StoreKeys : Read(c, a, b)
        \/ Validate(c)
        \/ Commit(c)

SpecRace == InitStore /\ [][NextRace]_vars

\* read, validate and write as one atomic step
ValidateAndCommit(c, a, b) ==
    /\ callers[c].at = "idle"
    /\ Len(store) < MaxStore
    /\ store' = IF validate_blocking_hierarchy(a, b, Blocks, List(store)).accepted
                THEN Append(store, Link(a, b, Blocks))
                ELSE store
    /\ UNCHANGED <<callers, arguments, pc, result, search, builder, issue_data>>

NextSerialized ==
    \E c \in Callers, a \in StoreKeys, b \in StoreKeys : ValidateAndCommit(c, a, b)

SpecSerialized == InitStore /\ [][NextSerialized]_vars

---------------------------------------------------------------------------
(* JQLBuilder of build_jql_query.py *)

\* most calls made on one builder
MaxCalls == 4

\* a + b on str
Cat(a, b) == Str(a.v \o b.v)

\* sep.join(items)
RECURSIVE join(_, _)
join(sep, items) ==
    IF items = <<>> THEN Str(<<>>)
    ELSE IF Len(items) = 1 THEN items[1]
    ELSE Cat(Cat(items[1], sep), join(sep, Tail(items)))

\* f'"{value}"'
Quoted(value) == Str(<<"\"">> \o value.v \o <<"\"">>)

\* " " in value
HasSpace(value) == \E i \in DOMAIN value.v : value.v[i] = " "

Space == Str(<<" ">>)

FieldStatus == Str(<<"s", "t", "a", "t", "u", "s">>)

FieldPriority == Str(<<"p", "r", "i", "o", "r", "i", "t", "y">>)

FieldType == Str(<<"t", "y", "p", "e">>)

FieldLabels == Str(<<"l", "a", "b", "e", "l", "s">>)

FieldCreated == Str(<<"c", "r", "e", "a", "t", "e", "d">>)

OperatorEquals == Str(<<"=">>)

OperatorIn == Str(<<"I", "N">>)

And == Str(<<" ", "A", "N", "D", " ">>)

CommaSpace == Str(<<",", " ">>)

ProjectEquals == Str(<<"p", "r", "o", "j", "e", "c", "t", " ", "=", " ">>)

OrderByPrefix == Str(<<"O", "R", "D", "E", "R", " ", "B", "Y", " ">>)

Asc == Str(<<"A", "S", "C">>)

Desc == Str(<<"D", "E", "S", "C">>)

AssigneeIsEmpty ==
    Str(<<"a", "s", "s", "i", "g", "n", "e", "e", " ", "I", "S", " ", "E",
          "M", "P", "T", "Y">>)

DuedateBeforeNow ==
    Str(<<"d", "u", "e", "d", "a", "t", "e", " ", "<", " ", "n", "o", "w",
          "(", ")">>)

StatusNotClosed ==
    Str(<<"s", "t", "a", "t", "u", "s", " ", "!", "=", " ", "C", "l", "o",
          "s", "e", "d">>)

Open == Str(<<"O", "p", "e", "n">>)

InProgress == Str(<<"I", "n", " ", "P", "r", "o", "g", "r", "e", "s", "s">>)

Closed == Str(<<"C", "l", "o", "s", "e", "d">>)

Ui == Str(<<"u", "i">>)

TechDebt == Str(<<"t", "e", "c", "h", " ", "d", "e", "b", "t">>)

\* the conditions after add_condition(field, operator, value); value is a str
\* or a list of str
add_condition(conds, field, operator, value) ==
    LET text == IF value.ty = "str"
                THEN IF field \in {FieldStatus, FieldPriority, FieldType}
                     THEN Quoted(value)
                     ELSE IF HasSpace(value) THEN Quoted(value) ELSE value
                ELSE Cat(Cat(Str(<<"(">>),
                             join(CommaSpace,
                                  [i \in DOMAIN value.v |-> Quoted(value.v[i])])),
                         Str(<<")">>))
        op == IF value.ty = "list" THEN OperatorIn ELSE operator
    IN  Append(conds, Cat(Cat(Cat(Cat(field, Space), op), Space), text))

\* the order_clause order_by(field, direction) sets
order_by(field, direction) == Cat(Cat(Cat(OrderByPrefix, field), Space), direction)

\* what build() returns
build(conds, clause) ==
    LET project == Cat(ProjectEquals, PPLWEBMYST)
        filtered == IF conds # <<>>
                    THEN Cat(project, Cat(And, join(And, conds)))
                    ELSE project
    IN  IF clause # Absent
        THEN Cat(Cat(filtered, Space), clause)
        ELSE filtered

\* the state after JQLBuilder(): no order_clause attribute yet
InitBuilder ==
    /\ conditions = <<>>
    /\ order_clause = Absent
    /\ query = NoResult
    /\ calls = <<>>
    /\ store = <<>>
    /\ callers = <<>>
    /\ issue_data = <<>>
    /\ ValidatorUnused

\* a filter method that goes through add_condition
AddCondition(field, operator, value) ==
    /\ Len(calls) < MaxCalls
    /\ conditions' = add_condition(conditions, field, operator, value)
    /\ calls' = Append(calls, [op |-> "filter",
                               added |-> add_condition(<<>>, field, operator, value)])
    /\ UNCHANGED <<order_clause, query, store, callers, issue_data,
                   arguments, pc, result, search>>

status(value) == AddCondition(FieldStatus, OperatorEquals, value)

status_in(statuses) == AddCondition(FieldStatus, OperatorIn, statuses)

label(value) == AddCondition(FieldLabels, OperatorEquals, value)

unassigned ==
    /\ Len(calls) < MaxCalls
    /\ conditions' = Append(conditions, AssigneeIsEmpty)
    /\ calls' = Append(calls, [op |-> "filter", added |-> <<AssigneeIsEmpty>>])
    /\ UNCHANGED <<order_clause, query, store, callers, issue_data,
                   arguments, pc, result, search>>

due_date_overdue ==
    /\ Len(calls) < MaxCalls
    /\ conditions' = Append(Append(conditions, DuedateBeforeNow), StatusNotClosed)
    /\ calls' = Append(calls, [op |-> "filter",
                               added |-> <<DuedateBeforeNow, StatusNotClosed>>])
    /\ UNCHANGED <<order_clause, query, store, callers, issue_data,
                   arguments, pc, result, search>>

OrderBy(field, direction) ==
    /\ Len(calls) < MaxCalls
    /\ order_clause' = order_by(field, direction)
    /\ calls' = Append(calls, [op |-> "order_by",
                               clause |-> order_by(field, direction)])
    /\ UNCHANGED <<conditions, query, store, callers, issue_data,
                   arguments, pc, result, search>>

\* reset() emptying the conditions but keeping the order_clause
reset_keeping_order ==
    /\ Len(calls) < MaxCalls
    /\ conditions' = <<>>
    /\ calls' = Append(calls, [op |-> "reset"])
    /\ UNCHANGED <<order_clause, query, store, callers, issue_data,
                   arguments, pc, result, search>>

reset ==
    /\ Len(calls) < MaxCalls
    /\ conditions' = <<>>
    /\ order_clause' = Absent
    /\ calls' = Append(calls, [op |-> "reset"])
    /\ UNCHANGED <<query, store, callers, issue_data,
                   arguments, pc, result, search>>

Build ==
    /\ Len(calls) < MaxCalls
    /\ query' = build(conditions, order_clause)
    /\ calls' = Append(calls, [op |-> "build"])
    /\ UNCHANGED <<conditions, order_clause, store, callers, issue_data,
                   arguments, pc, result, search>>

NextBuilder ==
    \/ \E value \in {Open, InProgress} : status(value)
    \/ status_in(List(<<Open, Closed>>))
    \/ \E value \in {Ui, TechDebt} : label(value)
    \/ unassigned
    \/ due_date_overdue
    \/ OrderBy(FieldPriority, Desc)
    \/ OrderBy(FieldCreated, Asc)
    \/ reset
    \/ Build

SpecBuilder == InitBuilder /\ [][NextBuilder]_vars

---------------------------------------------------------------------------
(* JiraFieldValidator of validate_issue_fields.py *)

\* a dict object holding the items of the record r
Dict(r) == [ty |-> "dict", v |-> r]

\* not x: None, "", 0 and the empty list and dict are false
Falsy(x) ==
    \/ x = None
    \/ x.ty \in {"str", "list", "dict"} /\ x.v = <<>>
    \/ x.ty = "int" /\ x.v = <<"0">>

\* str(x) of a str, an int or None
PyStr(x) == IF x = None THEN Str(<<"N", "o", "n", "e">>) ELSE Str(x.v)

\* x in items, for a list of str
In(x, items) == \E i \in DOMAIN items : items[i] = x

Whitespace == {" ", "\t", "\n", "\r"}

\* str.strip()
strip(s) ==
    LET kept == {i \in DOMAIN s.v : s.v[i] \notin Whitespace}
        first == CHOOSE i \in kept : \A j \in kept : i <= j
        last == CHOOSE i \in kept : \A j \in kept : j <= i
    IN  IF kept = {} THEN Str(<<>>) ELSE Str(SubSeq(s.v, first, last))

Epica == Str(<<"É", "p", "i", "c", "a">>)

Bug == Str(<<"B", "u", "g">>)

SubTask == Str(<<"S", "u", "b", "-", "t", "a", "s", "k">>)

VALID_TYPES ==
    <<Str(<<"É", "p", "i", "c", "a">>),
      Str(<<"H", "i", "s", "t", "o", "r", "i", "a">>),
      Str(<<"T", "a", "s", "k">>),
      Str(<<"B", "u", "g">>),
      Str(<<"S", "u", "b", "-", "t", "a", "s", "k">>),
      Str(<<"I", "n", "i", "t", "i", "a", "t", "i", "v", "e">>),
      Str(<<"S", "p", "i", "k", "e">>),
      Str(<<"S", "t", "r", "a", "t", "e", "g", "i", "c", " ", "T", "h", "e", "m", "e">>),
      Str(<<"D", "e", "s", "i", "g", "n">>)>>

VALID_PRIORITIES ==
    <<Str(<<"A", "+", "+", " ", "(", "B", "l", "o", "q", "u", "e", "o", ")">>),
      Str(<<"A", "+", " ", "(", "C", "r", "í", "t", "i", "c", "o", ")">>),
      Str(<<"A", " ", "(", "M", "u", "y", " ", "I", "m", "p", "o", "r", "t", "a", "n", "t", "e", ")">>),
      Str(<<"B", " ", "(", "I", "m", "p", "o", "r", "t", "a", "n", "t", "e", ")">>),
      Str(<<"C", " ", "(", "M", "e", "n", "o", "r", ")">>),
      Str(<<"D", " ", "(", "T", "r", "i", "v", "i", "a", "l", ")">>)>>

VALID_BUG_ENVIRONMENTS ==
    <<Str(<<"P", "r", "o", "d", "u", "c", "c", "i", "o", "n">>),
      Str(<<"P", "r", "e", "-", "p", "r", "o", "d", "u", "c", "c", "i", "o", "n">>),
      Str(<<"T", "e", "s", "t", "i", "n", "g">>),
      Str(<<"D", "e", "s", "a", "r", "r", "o", "l", "l", "o">>)>>

\* REQUIRED_FIELDS.get(issue_type_name, ["summary"])
REQUIRED_FIELDS(issue_type_name) ==
    IF issue_type_name = Epica THEN <<"summary", "customfield_11762">>
    ELSE IF issue_type_name = Bug THEN <<"summary", "customfield_10824">>
    ELSE IF issue_type_name = SubTask THEN <<"summary", "parent">>
    ELSE <<"summary">>

\* longest summary and longest description
MaxSummaryLength == 200

MaxDescriptionLength == 5000

validate_summary(summary) ==
    IF Falsy(summary) \/ summary.ty # "str"
    THEN Return(FALSE, Msg("Summary is required and must be a string", <<>>))
    ELSE IF Len(strip(summary).v) < 1
    THEN Return(FALSE, Msg("Summary cannot be empty", <<>>))
    ELSE IF Len(strip(summary).v) > MaxSummaryLength
    THEN Return(FALSE,
             Msg("Summary exceeds 200 characters (current: {len(summary)})",
                 <<Len(strip(summary).v)>>))
    ELSE Return(TRUE, Msg("Summary is valid", <<>>))

validate_description(description) ==
    IF description = None
    THEN Return(TRUE, Msg("Description is optional", <<>>))
    ELSE IF description.ty # "str"
    THEN Return(FALSE, Msg("Description must be a string", <<>>))
    ELSE IF Len(description.v) > MaxDescriptionLength
    THEN Return(FALSE,
             Msg("Description exceeds 5000 characters (current: {len(description)})",
                 <<Len(description.v)>>))
    ELSE Return(TRUE, Msg("Description is valid", <<>>))

\* the types of VALID_TYPES are str, so lower() is applied to a str only
validate_issue_type(issue_type) ==
    IF Falsy(issue_type) \/ ~In(issue_type, VALID_TYPES)
    THEN Return(FALSE, Msg("Invalid issue type. Must be one of: {valid}", <<>>))
    ELSE IF lower(issue_type) = Str(<<"e", "p", "i", "c">>)
    THEN Return(FALSE, Msg("Use 'Épica' not 'Epic' for issue type", <<>>))
    ELSE Return(TRUE, Msg("Issue type is valid", <<>>))

validate_priority(priority) ==
    IF priority = None
    THEN Return(TRUE, Msg("Priority is optional", <<>>))
    ELSE IF ~In(priority, VALID_PRIORITIES)
    THEN Return(FALSE, Msg("Invalid priority. Must be one of: {valid}", <<>>))
    ELSE Return(TRUE, Msg("Priority is valid", <<>>))

validate_bug_environment(environment) ==
    IF ~In(environment, VALID_BUG_ENVIRONMENTS)
    THEN Return(FALSE, Msg("Invalid bug environment. Must be one of: {valid}", <<>>))
    ELSE Return(TRUE, Msg("Bug environment is valid", <<>>))

\* the number a string of decimal digits stands for
RECURSIVE DigitsValue(_)
DigitsValue(ds) ==
    IF ds = <<>> THEN 0
    ELSE 10 * DigitsValue(SubSeq(ds, 1, Len(ds) - 1))
             + (CHOOSE n \in 0..9 :
                    <<"0", "1", "2", "3", "4", "5", "6", "7", "8", "9">>[n + 1]
                        = ds[Len(ds)])

\* re.match(r"^\d{4}-\d{2}-\d{2}$", s); $ also matches before a final newline
MatchesDatePattern(s) ==
    /\ \/ Len(s.v) = 10
       \/ Len(s.v) = 11 /\ s.v[11] = "\n"
    /\ \A i \in {1, 2, 3, 4, 6, 7, 9, 10} : s.v[i] \in Digits
    /\ s.v[5] = "-"
    /\ s.v[8] = "-"

\* datetime.strptime(s, "%Y-%m-%d") succeeds, for a string that matches the
\* pattern: nothing after the day, and a day of the calendar
IsCalendarDate(s) ==
    LET year == DigitsValue(SubSeq(s.v, 1, 4))
        month == DigitsValue(SubSeq(s.v, 6, 7))
        day == DigitsValue(SubSeq(s.v, 9, 10))
        leap == year % 4 = 0 /\ (year % 100 # 0 \/ year % 400 = 0)
        days == IF month = 2 THEN (IF leap THEN 29 ELSE 28)
                ELSE IF month \in {4, 6, 9, 11} THEN 30 ELSE 31
    IN  /\ Len(s.v) = 10
        /\ year >= 1
        /\ month \in 1..12
        /\ day \in 1..days

\* re.match raises TypeError for a duedate that is neither None nor a str
validate_duedate(duedate) ==
    IF duedate = None
    THEN Return(TRUE, Msg("Duedate is optional", <<>>))
    ELSE IF duedate.ty # "str"
    THEN Raise("TypeError")
    ELSE IF ~MatchesDatePattern(duedate)
    THEN Return(FALSE,
             Msg("Duedate must be in YYYY-MM-DD format (got: {duedate})", <<duedate>>))
    ELSE IF IsCalendarDate(duedate)
    THEN Return(TRUE, Msg("Duedate is valid", <<>>))
    ELSE Return(FALSE, Msg("Invalid date: {duedate}", <<duedate>>))

validate_epic_name_match(summary, epic_name) ==
    IF epic_name # summary
    THEN Return(FALSE,
             Msg("Epic Name (customfield_11762) must exactly match summary. Summary: '{summary}', Epic Name: '{epic_name}'",
                 <<summary, epic_name>>))
    ELSE Return(TRUE, Msg("Epic name matches summary", <<>>))

\* re.match raises TypeError for a parent_key that is not a str
validate_parent_issue_key(parent_key) ==
    IF parent_key.ty # "str"
    THEN Raise("TypeError")
    ELSE IF ~MatchesKeyPattern(parent_key)
    THEN Return(FALSE,
             Msg("Invalid parent issue key format: {parent_key}. Expected: PROJECT-NUMBER",
                 <<parent_key>>))
    ELSE Return(TRUE, Msg("Parent issue key format is valid", <<>>))

\* the loop over required_fields, from field i on
RECURSIVE required_fields_loop(_, _, _, _, _)
required_fields_loop(data, issue_type_name, required_fields, i, errors) ==
    IF i > Len(required_fields)
    THEN errors
    ELSE required_fields_loop(data, issue_type_name, required_fields, i + 1,
             IF required_fields[i] \notin DOMAIN data \/ Falsy(data[required_fields[i]])
             THEN Append(errors,
                      [field |-> required_fields[i],
                       error |-> Msg("Required field for {issue_type_name} type",
                                     <<issue_type_name>>)])
             ELSE errors)

\* the type-specific validations: the errors after them, or the exception
type_specific_validations(data, issue_type_name, errors) ==
    LET epic_name == Get(data, "customfield_11762")
        env == Get(data, "customfield_10824")
        parent == Get(data, "parent")
        parent_key == IF parent.ty = "str" THEN parent ELSE Get(parent.v, "key")
    IN  IF issue_type_name = Epica
        THEN IF Falsy(epic_name)
             THEN [exc |-> "", errors |-> errors]
             ELSE IF "summary" \notin DOMAIN data
             THEN [exc |-> "KeyError", errors |-> errors]
             ELSE [exc |-> "",
                   errors |-> AppendError(errors, "customfield_11762",
                                  validate_epic_name_match(data["summary"], epic_name))]
        ELSE IF issue_type_name = Bug
        THEN IF Falsy(env)
             THEN [exc |-> "", errors |-> errors]
             ELSE [exc |-> "",
                   errors |-> AppendError(errors, "customfield_10824",
                                  validate_bug_environment(env))]
        ELSE IF issue_type_name = SubTask
        THEN IF Falsy(parent)
             THEN [exc |-> "", errors |-> errors]
             ELSE IF parent.ty \notin {"str", "dict"}
             THEN [exc |-> "AttributeError", errors |-> errors]
             ELSE IF Raised(validate_parent_issue_key(parent_key))
             THEN [exc |-> validate_parent_issue_key(parent_key).exc, errors |-> errors]
             ELSE [exc |-> "",
                   errors |-> AppendError(errors, "parent",
                                  validate_parent_issue_key(parent_key))]
        ELSE [exc |-> "", errors |-> errors]

validate_issue_fields(data) ==
    LET issue_type == GetOr(data, "issuetype", Dict(<<>>))
        issue_type_name == IF issue_type.ty = "dict"
                           THEN Get(issue_type.v, "name")
                           ELSE PyStr(issue_type)
        type_check == validate_issue_type(issue_type_name)
        errors1 == required_fields_loop(data, issue_type_name,
                       REQUIRED_FIELDS(issue_type_name), 1, <<>>)
        errors2 == IF "summary" \in DOMAIN data
                   THEN AppendError(errors1, "summary",
                            validate_summary(data["summary"]))
                   ELSE errors1
        errors3 == IF "description" \in DOMAIN data
                   THEN AppendError(errors2, "description",
                            validate_description(data["description"]))
                   ELSE errors2
        priority == GetOr(data, "priority", Dict(<<>>))
        errors4 == IF "priority" \in DOMAIN data
                   THEN AppendError(errors3, "priority",
                            validate_priority(Get(priority.v, "name")))
                   ELSE errors3
        specific == type_specific_validations(data, issue_type_name, errors4)
        duedate_check == validate_duedate(data["duedate"])
        errors6 == IF "duedate" \in DOMAIN data
                   THEN AppendError(specific.errors, "duedate", duedate_check)
                   ELSE specific.errors
        warnings1 == IF issue_type_name = Bug /\ "assignee" \notin DOMAIN data
                     THEN <<[field |-> "assignee",
                             warning |-> Msg("Bug must be assigned to QA team", <<>>)]>>
                     ELSE <<>>
        warnings2 == IF "customfield_42960" \notin DOMAIN data
                         /\ Get(data, "status") = Open
                     THEN Append(warnings1,
                              [field |-> "customfield_42960",
                               warning |-> Msg("Consider populating Vertical Owner for classification",
                                               <<>>)])
                     ELSE warnings1
    IN  IF ~type_check.accepted
        THEN [valid |-> FALSE,
              errors |-> <<[field |-> "issuetype", error |-> type_check.message]>>,
              warnings |-> <<>>]
        ELSE IF "priority" \in DOMAIN data /\ priority.ty # "dict"
        THEN Raise("AttributeError")
        ELSE IF specific.exc # ""
        THEN Raise(specific.exc)
        ELSE IF "duedate" \in DOMAIN data /\ Raised(duedate_check)
        THEN Raise(duedate_check.exc)
        ELSE [valid |-> Len(errors6) = 0,
              errors |-> errors6,
              warnings |-> warnings2,
              issue_type |-> issue_type_name]

\* the dict with the fields that are not Absent
IssueData(fields) ==
    [k \in {f \in DOMAIN fields : fields[f] # Absent} |-> fields[k]]

\* a summary one character longer than allowed
LongSummary == Str([i \in 1..(MaxSummaryLength + 1) |-> "x"])

SomeName == Str(<<"S">>)

\* the values of customfield_11762, customfield_10824 and parent: at most one
\* of the three type-specific fields is present
TypeSpecificFields ==
    {<<Absent, Absent, Absent>>}
        \cup {<<e, Absent, Absent>> : e \in {SomeName, Str(<<"E">>)}}
        \cup {<<Absent, b, Absent>> : b \in {VALID_BUG_ENVIRONMENTS[1], SomeName}}
        \cup {<<Absent, Absent, k>> : k \in {Key1, Dict([key |-> SomeName]), Int7}}

InitIssueFields ==
    /\ issue_data \in
           {IssueData([issuetype |-> t, summary |-> s, description |-> d,
                       priority |-> p, customfield_11762 |-> f[1],
                       customfield_10824 |-> f[2], parent |-> f[3],
                       duedate |-> u, assignee |-> a, status |-> o,
                       customfield_42960 |-> v]) :
               t \in {Absent, Dict([name |-> Epica]), Dict([name |-> Bug]),
                      Dict([name |-> SubTask]), Str(<<"T", "a", "s", "k">>),
                      Dict([name |-> Str(<<"E", "p", "i", "c">>)])},
               s \in {Absent, Str(<<>>), SomeName, Int7, LongSummary},
               d \in {Absent, Int7},
               p \in {Absent, Dict([name |-> VALID_PRIORITIES[1]]), SomeName},
               f \in TypeSpecificFields,
               u \in {Absent, Str(<<"2", "0", "2", "4", "-", "0", "2", "-", "2", "9">>),
                      Str(<<"2", "0", "2", "3", "-", "0", "2", "-", "2", "9">>), Int7},
               a \in {Absent, SomeName},
               o \in {Absent, Open},
               v \in {Absent, SomeName}}
    /\ pc = "start"
    /\ result = NoResult
    /\ outward_key = None
    /\ inward_key = None
    /\ link_type = None
    /\ existing_links = None
    /\ blocking_map = <<>>
    /\ stack = <<>>
    /\ visited = {}
    /\ ret = "none"
    /\ expanded = <<>>
    /\ store = <<>>
    /\ callers = <<>>
    /\ BuilderUnused

CallValidateIssueFields ==
    /\ pc = "start"
    /\ result' = validate_issue_fields(issue_data)
    /\ pc' = "done"
    /\ UNCHANGED <<issue_data, arguments, search, store, callers, builder>>

NextIssueFields == CallValidateIssueFields

SpecIssueFields == InitIssueFields /\ [][NextIssueFields]_vars

---------------------------------------------------------------------------
\* C1: for link_type "Blocks" and well-formed records the call returns
\* accepted = false exactly when a directed path of length >= 0 leads from
\* inward to outward over the (from, to) pairs of the "Blocks" records, and
\* accepted = true otherwise.
C1_RejectsIffPath ==
    (Done /\ link_type = Blocks) =>
        /\ "accepted" \in DOMAIN result
        /\ result.accepted = ~PathExists(BlocksEdges(existing_links),
                                         inward_key, outward_key)

\* a rejection that rests on a path of two edges through a third issue
C1_Witness ==
    /\ Done /\ link_type = Blocks /\ Rejected
    /\ outward_key # inward_key
    /\ <<inward_key, outward_key>> \notin BlocksEdges(existing_links)

\* C2: when the Blocks records hold a chain x0 -> ... -> xn (n >= 1), the
\* closing edge xn Blocks x0 is rejected, whatever else the list holds and
\* in whatever order.
C2_ClosingEdgeRejected ==
    (Done /\ link_type = Blocks
          /\ ChainExists(BlocksEdges(existing_links), inward_key, outward_key))
        => Rejected

\* A blocks B and B blocks C, listed in the reverse order after a link of
\* another type, and C blocks A is proposed
C2_Witness ==
    /\ Done /\ Rejected
    /\ outward_key = KeyC /\ inward_key = KeyA /\ link_type = Blocks
    /\ existing_links = List(<<Link(KeyA, KeyB, RelatesTo),
                               Link(KeyB, KeyC, Blocks),
                               Link(KeyA, KeyB, Blocks)>>)

\* C3: a redundant shortcut edge is accepted: outward already reaches inward
\* over Blocks edges and inward does not reach outward.
C3_ShortcutAccepted ==
    (Done /\ link_type = Blocks
          /\ ChainExists(BlocksEdges(existing_links), outward_key, inward_key)
          /\ ~PathExists(BlocksEdges(existing_links), inward_key, outward_key))
        => Accepted

\* A blocks B and B blocks C exist and A blocks C is proposed
C3_Witness ==
    /\ Done /\ Accepted
    /\ outward_key = KeyA /\ inward_key = KeyC /\ link_type = Blocks
    /\ Len(Items(existing_links)) = 2
    /\ BlocksEdges(existing_links) = {<<KeyA, KeyB>>, <<KeyB, KeyC>>}

\* C5: with existing_links empty or None every proposed Blocks edge between
\* two different issues is accepted, and None gives the result of the empty
\* list for every argument.
C5_EmptyOrAbsentAccepted ==
    /\ (Done /\ link_type = Blocks /\ outward_key # inward_key
             /\ existing_links \in {None, List(<<>>)}) => Accepted
    /\ (Done /\ existing_links = None) =>
            result = validate_blocking_hierarchy(outward_key, inward_key,
                                                 link_type, List(<<>>))

\* a Blocks edge proposed with existing_links None and accepted
C5_Witness ==
    /\ Done /\ Accepted /\ link_type = Blocks
    /\ existing_links = None /\ outward_key # inward_key

\* C6: called with outward == inward and link_type Blocks the cycle check
\* reports a path (accepted = false) for every list, the empty one included.
C6_SelfLinkIsPath ==
    (Done /\ link_type = Blocks /\ outward_key = inward_key) => Rejected

\* a self edge proposed against the empty list and rejected
C6_Witness ==
    /\ Done /\ Rejected /\ link_type = Blocks
    /\ outward_key = inward_key /\ existing_links = List(<<>>)

---------------------------------------------------------------------------
\* C4: for a link_type other than "Blocks" the call returns accepted = true
\* for every outward, inward and list (lists with cycles, unhashable values
\* and outward == inward included), and it neither builds the map nor
\* searches it: it goes from its start to its end in one step.
C4_NonBlocksAcceptedUnchecked ==
    link_type # Blocks =>
        /\ pc \in {"start", "done"}
        /\ blocking_map = <<>> /\ stack = <<>> /\ visited = {}
        /\ expanded = <<>> /\ ret = "none"
        /\ Done => result =
               Return(TRUE,
                   Msg("Not a blocking link, no circular dependency check needed",
                       <<>>))

\* a "Relates to" self link accepted against a list that holds a 2-cycle
C4_Witness ==
    /\ Done /\ Accepted /\ link_type = RelatesTo
    /\ outward_key = inward_key
    /\ {<<KeyA, KeyB>>, <<KeyB, KeyA>>} \subseteq BlocksEdges(existing_links)

\* C8: the search ends on every finite list, lists whose Blocks edges form
\* cycles included, and within one call no node has its successors iterated
\* twice.
C8_TerminatesExpandingOnce ==
    /\ <>(pc = "done")
    /\ [](\A i, j \in DOMAIN expanded : expanded[i] = expanded[j] => i = j)

\* a search that came back to an expanded node of a cycle and still ended
C8_Witness ==
    /\ Done /\ Accepted /\ link_type = Blocks
    /\ Len(expanded) = 2
    /\ <<expanded[2], expanded[1]>> \in BlocksEdges(existing_links)
    /\ <<expanded[1], expanded[2]>> \in BlocksEdges(existing_links)

---------------------------------------------------------------------------
\* C7: validate_link_operation called with outward_key == inward_key returns
\* valid = false and a non-empty errors list, for every link_type and every
\* list.
C7_SelfLinkInvalid ==
    (Done /\ outward_key = inward_key) =>
        /\ "valid" \in DOMAIN result
        /\ ~result.valid
        /\ Len(result.errors) > 0

\* a well-formed key linked to itself by "Relates to": the self-link error is
\* the only error
C7_Witness ==
    /\ Done /\ outward_key = Key1 /\ inward_key = Key1 /\ link_type = RelatesTo
    /\ Len(Items(existing_links)) = MaxFewLinks
    /\ "valid" \in DOMAIN result /\ ~result.valid
    /\ result.errors =
           <<[field |-> "link",
              error |-> Msg("Cannot link issue {outward_key} to itself", <<Key1>>)]>>

---------------------------------------------------------------------------
\* the records that have all of from, to and type
HasAllFields(link) == DOMAIN link = {"from", "to", "type"}

\* the records whose from, to and type are strings
AllStrings(link) ==
    /\ HasAllFields(link)
    /\ \A f \in DOMAIN link : link[f].ty = "str"

\* C9: records that lack from, to or type are skipped: for link_type Blocks
\* the result on a list equals the result on the list with those records
\* removed.
C9_MissingFieldsSkipped ==
    (Done /\ link_type = Blocks) =>
        result = validate_blocking_hierarchy(outward_key, inward_key, link_type,
                     List(SelectSeq(Items(existing_links), HasAllFields)))

\* C10: every call returns an (accepted, message) pair, and a record whose
\* from, to or type is not a string is a no-op edge: the result is that of
\* the list without such records.
C10_AlwaysReturns ==
    Done =>
        /\ "accepted" \in DOMAIN result
        /\ result = validate_blocking_hierarchy(outward_key, inward_key, link_type,
                        List(SelectSeq(Items(existing_links), AllStrings)))

\* the existing_links argument without the records whose type is not "Blocks"
BlocksRecordsOnly(links) ==
    IF links = None
    THEN None
    ELSE List(SelectSeq(links.v, LAMBDA link : Get(link, "type") = Blocks))

\* C11: only the records whose type is exactly "Blocks" contribute edges: the
\* result for a Blocks proposal is the result of the same call on the list
\* from which every record of another type ("Relates to", "blocks") has been
\* removed, so adding or removing such records never changes it
C11_OnlyBlocksRecordsCount ==
    Done =>
        result = validate_blocking_hierarchy(outward_key, inward_key, link_type,
                                             BlocksRecordsOnly(existing_links))

\* a Blocks proposal is accepted although a record of type "blocks" runs from
\* the blocked issue back to the blocking one
C11_Witness ==
    /\ Accepted
    /\ outward_key # inward_key
    /\ \E i \in 1..Len(Items(existing_links)) :
           Items(existing_links)[i] = Link(inward_key, outward_key, BlocksLower)

\* the list object holding the records of links in the order p
Reordered(links, p) == List([i \in 1..Len(links.v) |-> links.v[p[i]]])

\* C12: the result depends on the arguments only and not on the order of
\* existing_links: the call on any permutation of the same records (the
\* identity included, that is the same call again) returns the identical
\* (accepted, message) pair
C12_OrderIndependent ==
    (Done /\ existing_links # None) =>
        \A p \in Permutations(1..Len(existing_links.v)) :
            validate_blocking_hierarchy(outward_key, inward_key, link_type,
                                        Reordered(existing_links, p)) = result

\* a rejected proposal whose closing record comes second, after a record that
\* leaves the same node for another one
C12_Witness ==
    /\ Rejected
    /\ Len(Items(existing_links)) = 2
    /\ Items(existing_links)[1]["type"] = Blocks
    /\ Items(existing_links)[1]["from"] = inward_key
    /\ Items(existing_links)[1]["to"] \notin {inward_key, outward_key}
    /\ Items(existing_links)[2] = Link(inward_key, outward_key, Blocks)

\* C13: the validators have no side effects: no step of a call of
\* validate_link_operation (which calls validate_link_not_duplicate and
\* validate_blocking_hierarchy) changes the caller's existing_links, so when
\* it returns the list holds the same records in the same order and the
\* proposed edge has not been added
C13_NoSideEffects == [][existing_links' = existing_links]_vars

\* a valid Blocks proposal has returned and the non-empty list does not hold it
C13_Witness ==
    /\ Done
    /\ "valid" \in DOMAIN result
    /\ result.valid
    /\ link_type = Blocks
    /\ Len(Items(existing_links)) > 0
    /\ \A i \in 1..Len(Items(existing_links)) :
           Items(existing_links)[i] # Link(outward_key, inward_key, link_type)

\* a record of existing_links matches the proposal in from, to and type
ProposalIsDuplicate ==
    \E i \in 1..Len(Items(existing_links)) :
        Items(existing_links)[i] = Link(outward_key, inward_key, link_type)

DuplicateText == "Link already exists: {outward_key} {link_type} {inward_key}"

\* every check of validate_link_operation but the duplicate check passes
OtherChecksPass ==
    /\ validate_issue_key_format(outward_key).accepted
    /\ validate_issue_key_project(outward_key, PPLWEBMYST).accepted
    /\ validate_issue_key_format(inward_key).accepted
    /\ validate_issue_key_project(inward_key, PPLWEBMYST).accepted
    /\ validate_link_type(link_type).accepted
    /\ validate_link_not_self(outward_key, inward_key).accepted
    /\ validate_blocking_hierarchy(outward_key, inward_key, link_type,
                                   existing_links).accepted

\* the duplicate is reported in warnings and not in errors, and valid is what
\* the other checks alone decide
DuplicateIsWarningOnly ==
    /\ "warnings" \in DOMAIN result
    /\ \E i \in 1..Len(result.warnings) :
           /\ result.warnings[i].field = "link"
           /\ result.warnings[i].warning =
                  Msg(DuplicateText, <<outward_key, link_type, inward_key>>)
    /\ \A i \in 1..Len(result.errors) : result.errors[i].error.text # DuplicateText
    /\ result.valid = OtherChecksPass

\* C14 as stated: whenever the proposal matches a record of existing_links in
\* (from, to, type), validate_link_operation adds an entry to warnings and
\* none to errors, and valid is the same as with the duplicate ignored
C14_DuplicateIsWarning ==
    (Done /\ ProposalIsDuplicate) => DuplicateIsWarningOnly

\* C14 amended: when link_type is one of the valid link types and the proposal
\* matches a record of existing_links in (from, to, type),
\* validate_link_operation adds an entry to warnings and none to errors, and
\* valid is the same as with the duplicate ignored
C14_DuplicateIsWarningForValidType ==
    (Done /\ ProposalIsDuplicate /\ validate_link_type(link_type).accepted)
        => DuplicateIsWarningOnly

\* a Blocks proposal that is already in the list comes back valid with the
\* warning
C14_Witness ==
    /\ Done
    /\ ProposalIsDuplicate
    /\ link_type = Blocks
    /\ "valid" \in DOMAIN result
    /\ result.valid
    /\ Len(result.warnings) = 1

\* C15: when link_type is not one of the valid link types,
\* validate_link_operation returns right after the link-type check: the dict
\* has the keys valid, errors and warnings only, valid is false, warnings is
\* empty, and errors holds key-format and project errors followed by the one
\* link_type error, with no entry of the field "link" (the self-link, cycle
\* and duplicate checks did not run)
C15_InvalidTypeReturnsEarly ==
    (Done /\ ~validate_link_type(link_type).accepted) =>
        /\ DOMAIN result = {"valid", "errors", "warnings"}
        /\ result.valid = FALSE
        /\ result.warnings = <<>>
        /\ Len(result.errors) >= 1
        /\ result.errors[Len(result.errors)] =
               [field |-> "link_type", error |-> validate_link_type(link_type).message]
        /\ \A i \in 1..(Len(result.errors) - 1) :
               result.errors[i].field \in {"outward_key", "inward_key"}

\* a proposal of an invalid type has returned that is in the list and, were
\* its type Blocks, would close a cycle
C15_Witness ==
    /\ Done
    /\ link_type = BlocksLower
    /\ outward_key = Key1
    /\ inward_key = Key2
    /\ ProposalIsDuplicate
    /\ \E i \in 1..Len(Items(existing_links)) :
           Items(existing_links)[i] = Link(Key2, Key1, Blocks)

SelfLinkText == "Cannot link issue {outward_key} to itself"

CircularText == "Creating link would create circular dependency: {outward_key} -> {inward_key} -> ... -> {outward_key}"

\* C16: in validate_link_operation a Blocks proposal with outward_key equal to
\* inward_key is rejected by the self-link check and never reaches the cycle
\* check: errors holds the self-link error and no circular-dependency error
C16_SelfLinkSkipsCycleCheck ==
    (Done /\ outward_key = inward_key /\ link_type = Blocks) =>
        /\ \E i \in 1..Len(result.errors) : result.errors[i].error.text = SelfLinkText
        /\ \A i \in 1..Len(result.errors) : result.errors[i].error.text # CircularText

\* both callers validated against the same snapshot, in which neither issue
\* blocks the other, the proposals a blocks b and b blocks a
RacingPair(c, d) ==
    /\ callers[c].at \in {"validated", "done"}
    /\ callers[d].at \in {"validated", "done"}
    /\ callers[c].snapshot = callers[d].snapshot
    /\ ~StoreHasCycle(callers[c].snapshot)
    /\ callers[c].outward # callers[c].inward
    /\ callers[d].outward = callers[c].inward
    /\ callers[d].inward = callers[c].outward
    /\ ~PathExists(BlocksEdges(List(callers[c].snapshot)),
                   callers[c].outward, callers[c].inward)
    /\ ~PathExists(BlocksEdges(List(callers[c].snapshot)),
                   callers[c].inward, callers[c].outward)

\* C17: without serialization of read, validate and write there is a TOCTOU
\* race.  Every accepted validation is right about its own snapshot (the
\* snapshot with the proposed edge has no cycle); two callers that validate
\* a blocks b and b blocks a against the same acyclic snapshot without a path
\* between a and b are both accepted; and once both have committed, the store
\* has a directed cycle that is in neither snapshot
C17_RaceYieldsUnseenCycle ==
    /\ \A c \in Callers :
           (/\ callers[c].at \in {"validated", "done"}
            /\ ~StoreHasCycle(callers[c].snapshot)
            /\ callers[c].decision.accepted)
               => ~StoreHasCycle(Append(callers[c].snapshot,
                                        Link(callers[c].outward,
                                             callers[c].inward, Blocks)))
    /\ \A c \in Callers, d \in Callers :
           RacingPair(c, d) =>
               /\ callers[c].decision.accepted
               /\ callers[d].decision.accepted
               /\ (callers[c].at = "done" /\ callers[d].at = "done")
                      => /\ StoreHasCycle(store)
                         /\ ~StoreHasCycle(callers[c].snapshot)

\* on the empty store A blocks B and B blocks A were both validated, accepted
\* and committed: the store holds a cycle
C17_Witness ==
    /\ callers["caller1"].at = "done"
    /\ callers["caller2"].at = "done"
    /\ callers["caller1"].snapshot = <<>>
    /\ callers["caller2"].snapshot = <<>>
    /\ callers["caller1"].decision.accepted
    /\ callers["caller2"].decision.accepted
    /\ store = <<Link(KeyA, KeyB, Blocks), Link(KeyB, KeyA, Blocks)>>
    /\ StoreHasCycle(store)

\* C18: starting from an acyclic store of Blocks links, after any sequence of
\* steps that each validate a proposed Blocks edge against the current store
\* with validate_blocking_hierarchy and commit it only when accepted, as one
\* atomic step, the blocking graph of the store has no cycle: no path of one
\* or more edges from a node to itself, self-edges included
C18_SerializedStoreAcyclic == ~StoreHasCycle(store)

\* three links were committed one after the other, the last one a shortcut
C18_Witness ==
    /\ Len(store) = MaxStore
    /\ \E i \in 1..Len(store) : store[i] = Link(KeyA, KeyB, Blocks)
    /\ \E i \in 1..Len(store) : store[i] = Link(KeyB, KeyC, Blocks)
    /\ store[Len(store)] = Link(KeyA, KeyC, Blocks)

\* the literal "project = PPLWEBMYST"
ProjectOnly ==
    Str(<<"p", "r", "o", "j", "e", "c", "t", " ", "=", " ", "P", "P",
          "L", "W", "E", "B", "M", "Y", "S", "T">>)

\* the calls logged after the last reset()
SinceLastReset(log) ==
    LET resets == {i \in DOMAIN log : log[i].op = "reset"}
        last == IF resets = {} THEN 0
                ELSE CHOOSE i \in resets : \A j \in resets : j <= i
    IN  SubSeq(log, last + 1, Len(log))

\* the conditions the filter calls of the log added, in call order
RECURSIVE ConditionsAdded(_)
ConditionsAdded(log) ==
    IF log = <<>> THEN <<>>
    ELSE IF Head(log).op = "filter"
    THEN Head(log).added \o ConditionsAdded(Tail(log))
    ELSE ConditionsAdded(Tail(log))

\* the clause of the last order_by() of the log, Absent if there is none
RECURSIVE LastOrderBy(_)
LastOrderBy(log) ==
    IF log = <<>> THEN Absent
    ELSE IF log[Len(log)].op = "order_by" THEN log[Len(log)].clause
    ELSE LastOrderBy(SubSeq(log, 1, Len(log) - 1))

\* every condition preceded by " AND "
RECURSIVE EachAfterAnd(_)
EachAfterAnd(conds) ==
    IF conds = <<>> THEN Str(<<>>)
    ELSE Str(<<" ", "A", "N", "D", " ">> \o Head(conds).v \o EachAfterAnd(Tail(conds)).v)

ExpectedQuery(log) ==
    Str(ProjectOnly.v
        \o EachAfterAnd(ConditionsAdded(SinceLastReset(log))).v
        \o (IF LastOrderBy(SinceLastReset(log)) = Absent THEN <<>>
            ELSE <<" ">> \o LastOrderBy(SinceLastReset(log)).v))

LastCallIs(op) == calls # <<>> /\ calls[Len(calls)].op = op

\* C19: after any sequence of filter, order_by and reset calls, build() returns
\* "project = PPLWEBMYST", then the conditions added since the last reset() in
\* call order, each preceded by " AND ", then, after a space, the ORDER BY
\* clause of the most recent order_by() since the last reset() if there is
\* one; build() right after reset() returns exactly "project = PPLWEBMYST";
\* and build() leaves conditions and order_clause unchanged
C19_BuildReturnsConditionsInOrder ==
    /\ [](LastCallIs("build") => query = ExpectedQuery(calls))
    /\ []((LastCallIs("build") /\ Len(calls) >= 2
              /\ calls[Len(calls) - 1].op = "reset") => query = ProjectOnly)
    /\ [][calls' = Append(calls, [op |-> "build"])
              => UNCHANGED <<conditions, order_clause>>]_vars

\* order_by, reset, a filter and build were called: the query has the one
\* condition and no ORDER BY clause
C19_Witness ==
    /\ Len(calls) = 4
    /\ calls[1].op = "order_by"
    /\ calls[2].op = "reset"
    /\ calls[3].op = "filter"
    /\ calls[4].op = "build"
    /\ query = Cat(ProjectOnly, Cat(And, AssigneeIsEmpty))

\* C20: validate_issue_fields returns a dict with valid, errors and warnings
\* for every issue_data and reports each rule violation as an entry of errors
\* rather than failing; an issue of type "Épica" that carries
\* customfield_11762 but no summary key yields valid = false with the
\* required-field error for summary; and valid is true exactly when errors is
\* empty
C20_AlwaysReturnsDict ==
    Done =>
        /\ {"valid", "errors", "warnings"} \subseteq DOMAIN result
        /\ result.valid = (Len(result.errors) = 0)
        /\ (/\ Get(issue_data, "issuetype") = Dict([name |-> Epica])
            /\ ~Falsy(Get(issue_data, "customfield_11762"))
            /\ "summary" \notin DOMAIN issue_data)
               => /\ result.valid = FALSE
                  /\ \E i \in 1..Len(result.errors) :
                         /\ result.errors[i].field = "summary"
                         /\ result.errors[i].error.text
                                = "Required field for {issue_type_name} type"

====
